---------------------------- MODULE Spec2Model ----------------------------
(***************************************************************************)
(* A model of the media vault: the IndexedDB-backed store (services/db),   *)
(* the App component that owns the in-memory collection and the object-URL *)
(* set, and the UploadModal's processBatchUpload pipeline.                 *)
(*                                                                         *)
(* Nine specifications share the variables:                                *)
(*   SpecStore     the store alone, driven by arbitrary calls;             *)
(*   Spec          the App component over the store, with uploads of       *)
(*                 images at the unlimited tier (no throttle ticks);       *)
(*   SpecUpload    the UploadModal with its camera, where batches can      *)
(*                 overlap, at the unlimited tier;                         *)
(*   SpecBatch     the processBatchUpload pipeline for file selections,    *)
(*                 at every tier, kind and autoTagging setting;            *)
(*   SpecTerminate SpecBatch from an empty vault, where every timer fires  *)
(*                 and every enrichment returns;                           *)
(*   SpecProgress  long batches of photos at the unlimited tier;           *)
(*   SpecVault     the second App definition of vite.config.ts;            *)
(*   SpecRemount   the App mounted again after its teardown;               *)
(*   SpecClassify  file selections of any mime type and extension.         *)
(***************************************************************************)
EXTENDS Integers, Sequences, FiniteSets, TLC

(***************************************************************************)
(* Bounds of the model.                                                    *)
(***************************************************************************)
MaxId == 2          \* SpecStore: record ids are 1..MaxId
MaxPending == 2     \* SpecStore: at most this many store calls in flight
MaxStoreCalls == 4  \* SpecStore: at most this many store calls in a run
MaxInFlight == 2    \* Spec: at most this many store calls of the App in flight
MaxCalls == 2       \* at most this many processBatchUpload calls in a run
MaxBatch == 2       \* at most this many files in one batch
MaxOpens == 1       \* the UploadModal is opened at most this many times
MaxUploads == 1     \* Spec: at most this many batches are uploaded
MaxFavorites == 1   \* Spec: the user keeps at most this many favorites
MaxTotal == 7       \* SpecProgress: at most this many files in one batch
MaxHandles == 2     \* SpecRemount: no mount once this many handles were created

Ids == 1..MaxId

NoItem == [id |-> 0]

(***************************************************************************)
(* types.ts: MediaType and MediaItem.  A url is a record [k, n]: k is      *)
(* "data" for a base64 data-URL string, "Blob" for a Blob payload and      *)
(* "blob:" for the string URL.createObjectURL returned with handle n.      *)
(***************************************************************************)
MediaType == {"IMAGE", "VIDEO"}

MediaItem(id, url, type, title, tags, isFavorite, size) ==
    [id |-> id, url |-> url, type |-> type, title |-> title, tags |-> tags,
     isFavorite |-> isFavorite, size |-> size]

DataUrl(n) == [k |-> "data", n |-> n]
BlobPayload(n) == [k |-> "Blob", n |-> n]
ObjectUrl(h) == [k |-> "blob:", n |-> h]

NoSize == -1

VARIABLES
    \* services/db
    db,         \* the object store 'media': a set of records
    txq,        \* the store calls in flight, in the order they were made
    delDone,    \* history: ids whose delete resolved with no save of the id since it was called
    got,        \* SpecStore: what the last resolved getAllMediaItems() returned
    nCalls,     \* SpecStore: store calls made so far
    putFailed,  \* history: the id of the item whose put failed in the last rejected save
    delFailed,  \* history: the id of the last delete that was rejected
    \* App
    mediaItems,     \* useState<MediaItem[]>
    isDBLoaded,     \* useState(false)
    settings,       \* useState<AppSettings>: autoTagging, uploadSpeedLimit, storageUsage
    selectedItem,   \* useState<MediaItem | null>
    showUpload,     \* useState(false): the UploadModal is mounted
    objectUrls,     \* objectUrlsRef.current: the tracked object URLs (handles)
    created,        \* history: handles URL.createObjectURL has returned
    revoked,        \* history: handles passed to URL.revokeObjectURL
    unmounted,      \* the load effect's cleanup has run (teardown)
    syncDue,        \* a render changed mediaItems or isDBLoaded: the state-sync effect is due
    delCont,        \* the continuation of a handleDeleteItem whose await has settled
    delLog,         \* history: what each handleDeleteItem has done so far
    \* UploadModal
    modal,          \* the mounted UploadModal's state
    epoch,          \* how many times the UploadModal has been mounted
    calls,          \* the processBatchUpload calls
    starts,         \* batches whose FileReader reads are in flight
    closeTimers,    \* pending setTimeout(onClose, 800)
    nextId,         \* ids handed out to new items so far
    apiKey,         \* process.env.API_KEY is set
    random          \* the values Math.random() returns in this run: "low" (0), "high" (just under 1)

storeVars == <<db, txq, delDone, got, nCalls, putFailed, delFailed>>
appVars == <<mediaItems, isDBLoaded, settings, selectedItem, showUpload,
             objectUrls, created, revoked, unmounted, syncDue, delCont, delLog>>
uploadVars == <<modal, epoch, calls, starts, closeTimers, nextId, apiKey, random>>
vars == <<storeVars, appVars, uploadVars>>

(***************************************************************************)
(* The object store.  createObjectStore(STORE_NAME, {keyPath: 'id'}):      *)
(* a put replaces the record stored under the item's id.                   *)
(***************************************************************************)
putAppend(store, item) == store \cup {item}

put(store, item) == {r \in store : r.id # item.id} \cup {item}

RECURSIVE putAll(_, _)
putAll(store, items) ==
    IF items = <<>> THEN store
    ELSE putAll(put(store, Head(items)), Tail(items))

deleteKeep(store, id) == store

deleteClear(store, id) == {}

delete(store, id) == {r \in store : r.id # id}

\* store.getAll(): every record, in key order
RECURSIVE getAll(_)
getAll(store) ==
    IF store = {} THEN <<>>
    ELSE LET r == CHOOSE x \in store : \A y \in store : x.id <= y.id
         IN <<r>> \o getAll(store \ {r})

SeqIds(items) == {items[k].id : k \in 1..Len(items)}

(***************************************************************************)
(* A store call in flight.  Every call awaits initDB() and then opens one  *)
(* transaction on the store; open requests are served in order and         *)
(* transactions on one store run in the order they were created, so the    *)
(* calls in flight form a queue.  who names the caller whose continuation  *)
(* runs when the call settles; snap is what that continuation closed over. *)
(* clean and safe are history for the delete-then-read property.           *)
(***************************************************************************)
Call(op, who, items, id, snap, clean, safe) ==
    [op |-> op, who |-> who, items |-> items, id |-> id, snap |-> snap,
     clean |-> clean, safe |-> safe]

\* a save of some ids has been called: a delete in flight of one of them is
\* no longer a delete with no save since
Touched(q, ids) ==
    [k \in 1..Len(q) |->
        IF q[k].op = "delete" /\ q[k].id \in ids
        THEN [q[k] EXCEPT !.clean = FALSE] ELSE q[k]]

saveMediaItems(q, items, who) ==
    Append(Touched(q, SeqIds(items)),
           Call("save", who, items, 0, <<>>, FALSE, {}))

getAllMediaItems(q, who, safe) ==
    Append(q, Call("getAll", who, <<>>, 0, <<>>, FALSE, safe))

deleteMediaItem(q, id, who, snap) ==
    Append(q, Call("delete", who, <<>>, id, snap, TRUE, {}))

(***************************************************************************)
(* How a call at the head of the queue settles.                            *)
(*   save    resolves at transaction.oncomplete with every put applied;    *)
(*           a failed put request aborts the transaction, which undoes     *)
(*           the puts of the call, and rejects at transaction.onerror.     *)
(*   delete  resolves at request.onsuccess, rejects at request.onerror.    *)
(*   getAll  resolves with request.result, rejects at request.onerror.     *)
(***************************************************************************)
HeadIs(op, who) == txq # <<>> /\ Head(txq).op = op /\ Head(txq).who = who

SaveCommitted == putAll(db, Head(txq).items)

DeleteApplied == delete(db, Head(txq).id)

DeleteNoted == IF Head(txq).clean THEN delDone \cup {Head(txq).id} ELSE delDone

GetAllResult == getAll(db)

(***************************************************************************)
(* SpecStore: the store driven by a client that calls saveMediaItems,      *)
(* deleteMediaItem and getAllMediaItems in any order, without waiting.     *)
(***************************************************************************)
StoreItems ==
    {MediaItem(id, DataUrl(id), "IMAGE", "t", <<>>, fav, NoSize) :
        id \in Ids, fav \in BOOLEAN}

\* the batches the client saves: one item, or two
StoreBatches ==
    {<<a>> : a \in StoreItems} \cup {<<a, b>> : a \in StoreItems, b \in StoreItems}

NoResult == [items |-> <<>>, safe |-> {}, done |-> FALSE]

CanCall == nCalls < MaxStoreCalls /\ Len(txq) < MaxPending

ClientSave ==
    /\ CanCall
    /\ \E items \in StoreBatches :
          /\ txq' = saveMediaItems(txq, items, "client")
          /\ delDone' = delDone \ SeqIds(items)
    /\ nCalls' = nCalls + 1
    /\ UNCHANGED <<db, got, putFailed, delFailed, appVars, uploadVars>>

ClientDelete ==
    /\ CanCall
    /\ \E id \in Ids : txq' = deleteMediaItem(txq, id, "client", <<>>)
    /\ nCalls' = nCalls + 1
    /\ UNCHANGED <<db, delDone, got, putFailed, delFailed, appVars, uploadVars>>

ClientGetAll ==
    /\ CanCall
    /\ txq' = getAllMediaItems(txq, "client", delDone)
    /\ nCalls' = nCalls + 1
    /\ UNCHANGED <<db, delDone, got, putFailed, delFailed, appVars, uploadVars>>

ClientSaveResolve ==
    /\ HeadIs("save", "client")
    /\ db' = SaveCommitted
    /\ txq' = Tail(txq)
    /\ UNCHANGED <<delDone, got, nCalls, putFailed, delFailed, appVars, uploadVars>>

ClientSaveReject ==
    /\ HeadIs("save", "client")
    /\ \E j \in 1..Len(Head(txq).items) : putFailed' = Head(txq).items[j].id
    /\ txq' = Tail(txq)
    /\ UNCHANGED <<db, delDone, got, nCalls, delFailed, appVars, uploadVars>>

ClientDeleteResolve ==
    /\ HeadIs("delete", "client")
    /\ db' = DeleteApplied
    /\ delDone' = DeleteNoted
    /\ txq' = Tail(txq)
    /\ UNCHANGED <<got, nCalls, putFailed, delFailed, appVars, uploadVars>>

ClientDeleteReject ==
    /\ HeadIs("delete", "client")
    /\ delFailed' = Head(txq).id
    /\ txq' = Tail(txq)
    /\ UNCHANGED <<db, delDone, got, nCalls, putFailed, appVars, uploadVars>>

ClientGetAllResolve ==
    /\ HeadIs("getAll", "client")
    /\ got' = [items |-> GetAllResult, safe |-> Head(txq).safe, done |-> TRUE]
    /\ txq' = Tail(txq)
    /\ UNCHANGED <<db, delDone, nCalls, putFailed, delFailed, appVars, uploadVars>>

ClientGetAllReject ==
    /\ HeadIs("getAll", "client")
    /\ txq' = Tail(txq)
    /\ UNCHANGED <<db, delDone, got, nCalls, putFailed, delFailed, appVars, uploadVars>>

(***************************************************************************)
(* App (the first App definition of vite.config.ts, the one that tracks    *)
(* object URLs).                                                           *)
(***************************************************************************)
NoCont == [id |-> 0, snap |-> <<>>]

\* a state setter called after the component unmounted changes nothing
SetState(new, old) == IF unmounted THEN old ELSE new

\* a task may run: no handleDeleteItem continuation (a microtask) is waiting,
\* and the effects of the last render have run (React runs them before it
\* handles an event or renders another update)
Quiet == delCont = NoCont /\ (unmounted \/ ~syncDue)

\* the store is not behind by more than MaxInFlight calls
NotBusy == Len(txq) < MaxInFlight

\* the user can act on the App
UserCan == ~unmounted /\ Quiet

\* items.map(item => item.url instanceof Blob ? {...item, url: createObjectURL} : item)
\* of the load effect and of handleUpload; n handles exist already
RECURSIVE processUrls(_, _)
processUrls(items, n) ==
    IF items = <<>> THEN <<>>
    ELSE IF Head(items).url.k = "Blob"
         THEN <<[Head(items) EXCEPT !.url = ObjectUrl(n + 1)]>>
                  \o processUrls(Tail(items), n + 1)
         ELSE <<Head(items)>> \o processUrls(Tail(items), n)

\* the handles that map created
NewUrls(items, n) ==
    LET out == processUrls(items, n)
    IN {out[k].url.n : k \in {j \in 1..Len(items) : items[j].url.k = "Blob"}}

\* mediaItems.reduce(..., 0.12) in units of 1/51200 GB: 0.12 is 6144, a size
\* of s tenths of a MB is parseFloat(size) / 1024 = 5 s, 0.05 is 2560 and
\* 0.005 is 256
RECURSIVE usageSum(_)
usageSum(items) ==
    IF items = <<>> THEN 6144
    ELSE LET item == items[Len(items)]
             sizeVal == IF item.size # NoSize THEN 5 * item.size
                        ELSE IF item.type = "VIDEO" THEN 2560 ELSE 256
         IN usageSum(SubSeq(items, 1, Len(items) - 1)) + sizeVal

\* a usage that counts 0.05 for every item, whatever its size and kind
storageUsageFlat(items) == 1200 + 500 * Len(items)

\* Number(usage.toFixed(4)), in units of 0.0001 GB
storageUsageOf(items) == (usageSum(items) * 50 + 128) \div 256

\* a handler that sets the favorite mark instead of flipping it
mapToggleSet(items, id) ==
    [k \in 1..Len(items) |->
        IF items[k].id = id THEN [items[k] EXCEPT !.isFavorite = TRUE]
        ELSE items[k]]

\* a handler that flips the favorite mark of every item
mapToggleAll(items, id) ==
    [k \in 1..Len(items) |-> [items[k] EXCEPT !.isFavorite = ~items[k].isFavorite]]

\* prev.map(item => item.id === id ? { ...item, isFavorite: !item.isFavorite } : item)
mapToggle(items, id) ==
    [k \in 1..Len(items) |->
        IF items[k].id = id
        THEN [items[k] EXCEPT !.isFavorite = ~items[k].isFavorite]
        ELSE items[k]]

RECURSIVE filterOut(_, _)
filterOut(items, id) ==
    IF items = <<>> THEN <<>>
    ELSE IF Head(items).id = id THEN filterOut(Tail(items), id)
         ELSE <<Head(items)>> \o filterOut(Tail(items), id)

\* mediaItems.find(i => i.id === id)
find(items, id) ==
    IF \E k \in 1..Len(items) : items[k].id = id
    THEN items[CHOOSE k \in 1..Len(items) :
                  items[k].id = id /\ \A j \in 1..(k - 1) : items[j].id # id]
    ELSE NoItem

\* the load effect's then-callback
LoadResolve ==
    /\ HeadIs("getAll", "load")
    /\ Quiet
    /\ LET items == GetAllResult
           n == Cardinality(created)
       IN /\ created' = created \cup NewUrls(items, n)
          /\ objectUrls' = objectUrls \cup NewUrls(items, n)
          /\ mediaItems' = SetState(processUrls(items, n), mediaItems)
    /\ isDBLoaded' = SetState(TRUE, isDBLoaded)
    /\ syncDue' = SetState(TRUE, syncDue)
    /\ txq' = Tail(txq)
    /\ UNCHANGED <<db, delDone, got, nCalls, putFailed, delFailed, settings, selectedItem,
                   showUpload, revoked, unmounted, delCont, delLog, uploadVars>>

\* the load effect's catch-callback
LoadReject ==
    /\ HeadIs("getAll", "load")
    /\ Quiet
    /\ isDBLoaded' = SetState(TRUE, isDBLoaded)
    /\ syncDue' = SetState(TRUE, syncDue)
    /\ txq' = Tail(txq)
    /\ UNCHANGED <<db, delDone, got, nCalls, putFailed, delFailed, mediaItems, settings,
                   selectedItem, showUpload, objectUrls, created, revoked,
                   unmounted, delCont, delLog, uploadVars>>

\* the load effect's cleanup
Teardown ==
    /\ ~unmounted
    /\ delCont = NoCont
    /\ unmounted' = TRUE
    /\ revoked' = revoked \cup objectUrls
    /\ showUpload' = FALSE
    /\ UNCHANGED <<storeVars, mediaItems, isDBLoaded, settings, selectedItem,
                   objectUrls, created, syncDue, delCont, delLog, uploadVars>>

\* the state-sync effect, run after a render that changed mediaItems or isDBLoaded
SyncEffect ==
    /\ syncDue
    /\ ~unmounted
    /\ delCont = NoCont
    /\ syncDue' = FALSE
    /\ IF isDBLoaded
       THEN /\ IF Len(mediaItems) > 0
               THEN /\ txq' = saveMediaItems(txq, mediaItems, "sync")
                    /\ delDone' = delDone \ SeqIds(mediaItems)
               ELSE UNCHANGED <<txq, delDone>>
            /\ settings' = [settings EXCEPT !.storageUsage = storageUsageOf(mediaItems)]
       ELSE UNCHANGED <<txq, delDone, settings>>
    /\ UNCHANGED <<db, got, nCalls, putFailed, delFailed, mediaItems, isDBLoaded, selectedItem,
                   showUpload, objectUrls, created, revoked, unmounted, delCont,
                   delLog, uploadVars>>

\* saveMediaItems(mediaItems) of the state-sync effect resolves
SyncSaveResolve ==
    /\ HeadIs("save", "sync")
    /\ Quiet
    /\ db' = SaveCommitted
    /\ txq' = Tail(txq)
    /\ UNCHANGED <<delDone, got, nCalls, putFailed, delFailed, appVars, uploadVars>>

\* it rejects: .catch(console.error)
SyncSaveReject ==
    /\ HeadIs("save", "sync")
    /\ Quiet
    /\ \E j \in 1..Len(Head(txq).items) : putFailed' = Head(txq).items[j].id
    /\ txq' = Tail(txq)
    /\ UNCHANGED <<db, delDone, got, nCalls, delFailed, appVars, uploadVars>>

\* MediaGrid's onItemClick={setSelectedItem}
SelectItem ==
    /\ UserCan
    /\ selectedItem = NoItem
    /\ \E k \in 1..Len(mediaItems) : selectedItem' = mediaItems[k]
    /\ UNCHANGED <<storeVars, mediaItems, isDBLoaded, settings, showUpload,
                   objectUrls, created, revoked, unmounted, syncDue, delCont,
                   delLog, uploadVars>>

\* DetailModal's onClose={() => setSelectedItem(null)}
CloseDetail ==
    /\ UserCan
    /\ selectedItem # NoItem
    /\ selectedItem' = NoItem
    /\ UNCHANGED <<storeVars, mediaItems, isDBLoaded, settings, showUpload,
                   objectUrls, created, revoked, unmounted, syncDue, delCont,
                   delLog, uploadVars>>

Favorites == Cardinality({k \in 1..Len(mediaItems) : mediaItems[k].isFavorite})

handleToggleFavorite(id) ==
    /\ mediaItems' = mapToggle(mediaItems, id)
    /\ selectedItem' = IF selectedItem.id = id
                       THEN [selectedItem EXCEPT !.isFavorite = ~selectedItem.isFavorite]
                       ELSE selectedItem
    /\ syncDue' = TRUE

\* the heart button of the MediaGrid or of the DetailModal
ToggleFavorite ==
    /\ UserCan
    /\ NotBusy
    /\ \E id \in SeqIds(mediaItems) \cup ({selectedItem.id} \ {0}) :
          /\ \/ find(mediaItems, id).id = id /\ find(mediaItems, id).isFavorite
             \/ Favorites < MaxFavorites
          /\ handleToggleFavorite(id)
    /\ UNCHANGED <<storeVars, isDBLoaded, settings, showUpload, objectUrls,
                   created, revoked, unmounted, delCont, delLog, uploadVars>>

\* a handleDeleteItem that goes on after its await whether the store delete
\* resolved or rejected
afterAwaitCaught(call, resolved) == [id |-> call.id, snap |-> call.snap]

\* what runs when `await dbDeleteMediaItem(id)` settles: the rest of
\* handleDeleteItem when it resolved; nothing when it rejected, the await throws
afterAwait(call, resolved) ==
    IF resolved THEN [id |-> call.id, snap |-> call.snap] ELSE NoCont

\* the handle handleDeleteItem revokes for id, 0 if none: the item found in the
\* closed-over mediaItems, when its url is a 'blob:' string
revokedBy(id, snap) ==
    LET itemToDelete == find(snap, id)
    IN IF itemToDelete # NoItem /\ itemToDelete.url.k = "blob:"
       THEN itemToDelete.url.n ELSE 0

\* history of a revoke made by handleDeleteItem(id): whether the store delete
\* it awaits had resolved
Logged(id, h) ==
    IF h = 0 THEN delLog
    ELSE delLog \cup {[id |-> id, h |-> h, resolved |-> delCont.id = id]}

\* history of a handleDeleteItem(id) that ran to its end
Finished(id) == [id |-> id, h |-> 0, resolved |-> TRUE]

handleDeleteItemRevokeFirst(id) ==
    /\ txq' = deleteMediaItem(txq, id, "del", mediaItems)
    /\ revoked' = revoked \cup ({revokedBy(id, mediaItems)} \ {0})
    /\ objectUrls' = objectUrls \ {revokedBy(id, mediaItems)}
    /\ delLog' = Logged(id, revokedBy(id, mediaItems))

\* handleDeleteItem up to its await
handleDeleteItem(id) ==
    /\ txq' = deleteMediaItem(txq, id, "del", mediaItems)
    /\ UNCHANGED <<revoked, objectUrls, delLog>>

\* the DetailModal's delete button: onDelete(item.id); onClose()
DeleteItem ==
    /\ UserCan
    /\ selectedItem # NoItem
    /\ NotBusy
    /\ handleDeleteItem(selectedItem.id)
    /\ selectedItem' = NoItem
    /\ UNCHANGED <<db, delDone, got, nCalls, putFailed, delFailed, mediaItems, isDBLoaded,
                   settings, showUpload, created, unmounted, syncDue, delCont,
                   uploadVars>>

\* dbDeleteMediaItem(id) resolves: the rest of handleDeleteItem is the next thing to run
DeleteResolve ==
    /\ HeadIs("delete", "del")
    /\ Quiet
    /\ db' = DeleteApplied
    /\ delDone' = DeleteNoted
    /\ delCont' = afterAwait(Head(txq), TRUE)
    /\ txq' = Tail(txq)
    /\ UNCHANGED <<got, nCalls, putFailed, delFailed, mediaItems, isDBLoaded, settings,
                   selectedItem, showUpload, objectUrls, created, revoked,
                   unmounted, syncDue, delLog, uploadVars>>

\* handleDeleteItem after its await
DeleteContinue ==
    /\ delCont # NoCont
    /\ LET h == revokedBy(delCont.id, delCont.snap)
       IN /\ revoked' = revoked \cup ({h} \ {0})
          /\ objectUrls' = objectUrls \ {h}
          /\ delLog' = Logged(delCont.id, h) \cup {Finished(delCont.id)}
    /\ mediaItems' = SetState(filterOut(mediaItems, delCont.id), mediaItems)
    /\ selectedItem' = SetState(NoItem, selectedItem)
    /\ syncDue' = SetState(TRUE, syncDue)
    /\ delCont' = NoCont
    /\ UNCHANGED <<storeVars, isDBLoaded, settings, showUpload, created,
                   unmounted, uploadVars>>

\* dbDeleteMediaItem(id) rejects: handleDeleteItem throws at its await
DeleteReject ==
    /\ HeadIs("delete", "del")
    /\ Quiet
    /\ delFailed' = Head(txq).id
    /\ delCont' = afterAwait(Head(txq), FALSE)
    /\ txq' = Tail(txq)
    /\ UNCHANGED <<db, delDone, got, nCalls, putFailed, mediaItems, isDBLoaded,
                   settings, selectedItem, showUpload, objectUrls, created,
                   revoked, unmounted, syncDue, delLog, uploadVars>>

\* an App that puts the uploaded items behind the existing collection
handleUploadAppend(newItems) ==
    LET n == Cardinality(created)
    IN /\ created' = created \cup NewUrls(newItems, n)
       /\ objectUrls' = objectUrls \cup NewUrls(newItems, n)
       /\ mediaItems' = SetState(mediaItems \o processUrls(newItems, n), mediaItems)
       /\ syncDue' = SetState(TRUE, syncDue)

handleUpload(newItems) ==
    LET n == Cardinality(created)
    IN /\ created' = created \cup NewUrls(newItems, n)
       /\ objectUrls' = objectUrls \cup NewUrls(newItems, n)
       /\ mediaItems' = SetState(processUrls(newItems, n) \o mediaItems, mediaItems)
       /\ syncDue' = SetState(TRUE, syncDue)

(***************************************************************************)
(* UploadModal.                                                            *)
(***************************************************************************)
NoStatus == [k |-> "", i |-> 0, n |-> 0]

\* the useState initial values of a mounted UploadModal
ModalInit ==
    [loading |-> FALSE, showCamera |-> FALSE, cameraMode |-> "IMAGE",
     isRecording |-> FALSE, stream |-> FALSE, uploadProgress |-> 0,
     uploadStatus |-> NoStatus, isSuccess |-> FALSE, bitrate |-> 0,
     error |-> "null"]

\* a processBatchUpload call: its arguments, its locals, where it awaits
\* (pc), and history: the last percentage it reported (lastP), whether its
\* reports never decreased (mono), the items analyzeMedia was invoked for
\* (analyzed), those for which it gave null (nulls), and the number of
\* throttle ticks it has awaited (ticks)
NoCall ==
    [pc |-> "unused", ep |-> 0, types |-> <<>>, sizes |-> <<>>, i |-> 0,
     simulatedProgress |-> 0, newItems |-> <<>>, lastP |-> 0, mono |-> TRUE,
     analyzed |-> {}, nulls |-> {}, ticks |-> 0]

UploadSpeedLimit == {"unlimited", "10mbps", "5mbps", "1mbps"}

\* Math.random() * 40 + 80 at the ends of its range
SpeedSamples == {IF r = "low" THEN 80 ELSE 119 : r \in random}

\* a throttle whose increments do not depend on the tier
IncrementsSame(limit) == {IF r = "low" THEN 5 ELSE 20 : r \in random}

\* a throttle whose tick can add nothing
IncrementsStalled(limit) == {IF r = "low" THEN 0 ELSE 20 : r \in random}

\* Math.random() * increment + 5 with increment 3 ('1mbps') or 15: the least
\* value, and the bound of the range, 8 or 20, which no sample reaches and
\* which makes the fewest ticks the model takes the fewest a run can take
Increments(limit) ==
    {IF r = "low" THEN 5 ELSE IF limit = "1mbps" THEN 8 ELSE 20 : r \in random}

Min(a, b) == IF a < b THEN a ELSE b

\* setTimeout(r, appSettings?.uploadSpeedLimit === '1mbps' ? 200 : 50), in ms
TickDelay(limit) == IF limit = "1mbps" THEN 200 ELSE 50

\* the most ticks an item can take: a tick adds at least 5 while below 98
MostTicks == (98 + 5 - 1) \div 5

\* the simulated duration of a call so far, in ms
Duration(c) == c.ticks * TickDelay(settings.uploadSpeedLimit)

limitValue(limit) ==
    CASE limit = "1mbps" -> 1
      [] limit = "5mbps" -> 5
      [] limit = "10mbps" -> 10
      [] OTHER -> 100

throttled(type, limit) == type = "VIDEO" \/ limit # "unlimited"

\* Math.round(x / y) for x >= 0, y > 0
Round(x, y) == (2 * x + y) \div (2 * y)

\* Math.min(99, Math.round(((i / total) * 100) + (simulatedProgress / 100 * (100 / total))))
tickProgress(i, total, sp) == Min(99, Round(100 * i + sp, total))

\* Math.round(((i + 1) / total) * 100)
itemProgress(i, total) == Round(100 * (i + 1), total)

\* setUploadProgress(v) by a call: st is the call (c) and the modal state (m)
Report(st, v) ==
    [st EXCEPT !.c.lastP = v,
               !.c.mono = st.c.mono /\ v >= st.c.lastP,
               !.m.uploadProgress = v]

\* one pass of the throttle loop's body, up to its await
LoopBody(st, inc) ==
    LET sp == st.c.simulatedProgress + inc
        st1 == [st EXCEPT !.c.simulatedProgress = sp, !.c.pc = "tick",
                          !.c.ticks = st.c.ticks + 1]
    IN Report(st1, tickProgress(st.c.i, Len(st.c.types), sp))

\* type === MediaType.IMAGE ? await analyzeMedia(...) : null, the IMAGE side
InvokeAnalyze(st) ==
    [st EXCEPT !.c.pc = "enrich", !.c.analyzed = st.c.analyzed \cup {st.c.i}]

\* a pipeline that shows the sampled speed as it is
StartItemUncapped(st, inc, speed) ==
    LET type == st.c.types[st.c.i + 1]
        limit == settings.uploadSpeedLimit
        status == IF type = "VIDEO" THEN [k |-> "video", i |-> 0, n |-> 0]
                  ELSE [k |-> "moment", i |-> st.c.i + 1, n |-> Len(st.c.types)]
        st1 == [st EXCEPT !.m.uploadStatus = status]
    IN IF throttled(type, limit)
       THEN LoopBody([st1 EXCEPT !.c.simulatedProgress = 0, !.m.bitrate = speed], inc)
       ELSE InvokeAnalyze(st1)

\* the loop body of item st.c.i from its top to its first await
StartItem(st, inc, speed) ==
    LET type == st.c.types[st.c.i + 1]
        limit == settings.uploadSpeedLimit
        status == IF type = "VIDEO" THEN [k |-> "video", i |-> 0, n |-> 0]
                  ELSE [k |-> "moment", i |-> st.c.i + 1, n |-> Len(st.c.types)]
        st1 == [st EXCEPT !.m.uploadStatus = status]
    IN IF throttled(type, limit)
       THEN LoopBody([st1 EXCEPT !.c.simulatedProgress = 0,
                                 !.m.bitrate = Min(limitValue(limit), speed)],
                     inc)
       ELSE InvokeAnalyze(st1)

\* a pipeline that gives up the batch at the first item whose enrichment
\* gave null
BuildAbortOnNull(st, analysis, inc, speed) ==
    LET i == st.c.i
        type == st.c.types[i + 1]
        failed == analysis = "null" /\ i \in st.c.analyzed
        item == MediaItem(100 + nextId + 1, DataUrl(100 + nextId + 1), type,
                          "analysis.title", <<"analysis.tags">>, FALSE,
                          st.c.sizes[i + 1])
        st1 == IF failed
               THEN [st EXCEPT !.c.nulls = st.c.nulls \cup {i}]
               ELSE Report([st EXCEPT !.c.newItems = Append(st.c.newItems, item),
                                      !.built = TRUE],
                           itemProgress(i, Len(st.c.types)))
        st2 == [st1 EXCEPT !.c.i = i + 1]
    IN IF ~failed /\ i + 1 < Len(st.c.types)
       THEN StartItem(st2, inc, speed)
       ELSE [st2 EXCEPT !.c.pc = "done", !.fin = TRUE,
                        !.m.isSuccess = TRUE, !.m.loading = FALSE]

\* newItems.push({...}) of the try block, then the item's setUploadProgress,
\* then the next item or the end of the loop
Build(st, analysis, inc, speed) ==
    LET i == st.c.i
        type == st.c.types[i + 1]
        item == MediaItem(
                  100 + nextId + 1,
                  DataUrl(100 + nextId + 1),
                  type,
                  IF analysis = "ok" THEN "analysis.title"
                  ELSE IF type = "VIDEO" THEN "Video Memory" ELSE "Photo",
                  IF analysis = "ok" THEN <<"analysis.tags">>
                  ELSE <<"vault", IF type = "VIDEO" THEN "video" ELSE "image">>,
                  FALSE,
                  st.c.sizes[i + 1])
        nulls == IF analysis = "null" /\ i \in st.c.analyzed
                 THEN st.c.nulls \cup {i} ELSE st.c.nulls
        st1 == Report([st EXCEPT !.c.newItems = Append(st.c.newItems, item),
                                 !.c.nulls = nulls,
                                 !.built = TRUE],
                      itemProgress(i, Len(st.c.types)))
        st2 == [st1 EXCEPT !.c.i = i + 1]
    IN IF i + 1 < Len(st.c.types)
       THEN StartItem(st2, inc, speed)
       ELSE [st2 EXCEPT !.c.pc = "done", !.fin = TRUE,
                        !.m.isSuccess = TRUE, !.m.loading = FALSE]

\* the throttle loop after a tick's timer, and what follows the loop
AfterTick(st, inc, speed) ==
    IF st.c.simulatedProgress < 98
    THEN LoopBody(st, inc)
    ELSE IF st.c.types[st.c.i + 1] = "IMAGE"
         THEN InvokeAnalyze(st)
         ELSE Build(st, "null", inc, speed)

\* what analyzeMedia can return: null without a key (getAI), else the parsed
\* answer, or null when the call threw or answered nothing
AnalyzeOutcomes == IF apiKey THEN {"ok", "null"} ELSE {"null"}

\* the modal instance that made the call is still mounted
Live(c) == showUpload /\ ~unmounted /\ c.ep = epoch

Ctx(c, m) == [c |-> c, m |-> m, fin |-> FALSE, built |-> FALSE]

\* a step of call k ended in st: the state it leaves; onUpload(newItems),
\* setTimeout(onClose, 800) when the loop has ended
Leave(k, st) ==
    /\ calls' = [calls EXCEPT ![k] = st.c]
    /\ modal' = IF Live(st.c) THEN st.m ELSE modal
    /\ nextId' = IF st.built THEN nextId + 1 ELSE nextId
    /\ IF st.fin
       THEN /\ handleUpload(st.c.newItems)
            /\ closeTimers' = closeTimers + 1
       ELSE UNCHANGED <<created, objectUrls, mediaItems, syncDue, closeTimers>>

\* processBatchUpload(base64Array, types, mimeTypes, sizes) up to its first await
processBatchUpload(k, ep, types, sizes, m, inc, speed) ==
    LET c == [NoCall EXCEPT !.ep = ep, !.types = types, !.sizes = sizes]
        st == Ctx(c, [m EXCEPT !.loading = TRUE, !.error = "null",
                               !.uploadProgress = 0])
    IN Leave(k, StartItem(st, inc, speed))

FreeCall == CHOOSE k \in 1..(MaxCalls + 1) :
                k = MaxCalls + 1 \/ (calls[k].pc = "unused" /\ \A j \in 1..(k - 1) : calls[j].pc # "unused")

InFlight == {k \in 1..MaxCalls : calls[k].pc \in {"tick", "enrich"}}

Started == Cardinality({k \in 1..MaxCalls : calls[k].pc # "unused"})

\* another batch can still be started within MaxCalls
CanStart == Started + Len(starts) < MaxCalls

RemoveAt(q, n) == SubSeq(q, 1, n - 1) \o SubSeq(q, n + 1, Len(q))

\* 10 MB files, in tenths of a MB
FileSizes == {100}

RECURSIVE SeqsUpTo(_, _)
SeqsUpTo(S, n) ==
    IF n = 0 THEN {<<>>}
    ELSE LET shorter == SeqsUpTo(S, n - 1)
         IN shorter \cup {Append(q, x) : q \in shorter, x \in S}

Batches(types) == SeqsUpTo(types, MaxBatch) \ {<<>>}

\* the header's + button: setShowUpload(true) mounts an UploadModal
OpenUpload ==
    /\ UserCan
    /\ ~showUpload
    /\ epoch < MaxOpens
    /\ showUpload' = TRUE
    /\ epoch' = epoch + 1
    /\ modal' = ModalInit
    /\ UNCHANGED <<storeVars, mediaItems, isDBLoaded, settings, selectedItem,
                   objectUrls, created, revoked, unmounted, syncDue, delCont,
                   delLog, calls, starts, closeTimers, nextId, apiKey, random>>

ModalShown == showUpload /\ UserCan

\* what the modal renders when the camera is closed, nothing is loading and
\* no success is shown: the file input, the camera button, 'Close Vault'
ButtonsShown ==
    ModalShown /\ ~modal.showCamera /\ ~modal.isSuccess /\ ~modal.loading

\* the 'Close Vault' button: onClose
CloseUpload ==
    /\ ButtonsShown
    /\ showUpload' = FALSE
    /\ UNCHANGED <<storeVars, mediaItems, isDBLoaded, settings, selectedItem,
                   objectUrls, created, revoked, unmounted, syncDue, delCont,
                   delLog, uploadVars>>

\* setTimeout(onClose, 800) fires
CloseTimer ==
    /\ closeTimers > 0
    /\ Quiet
    /\ closeTimers' = closeTimers - 1
    /\ showUpload' = SetState(FALSE, showUpload)
    /\ UNCHANGED <<storeVars, mediaItems, isDBLoaded, settings, selectedItem,
                   objectUrls, created, revoked, unmounted, syncDue, delCont,
                   delLog, modal, epoch, calls, starts, nextId, apiKey, random>>

\* handleFileChange up to its first await: the files are being read
handleFileChange(types) ==
    /\ ButtonsShown
    /\ CanStart
    /\ NotBusy
    /\ modal' = [modal EXCEPT !.loading = TRUE]
    /\ \E sizes \in [1..Len(types) -> FileSizes] :
          starts' = Append(starts, [via |-> "files", types |-> types,
                                    sizes |-> sizes, ep |-> epoch])
    /\ UNCHANGED <<storeVars, appVars, epoch, calls, closeTimers, nextId, apiKey, random>>

\* the user picks an image
SelectImage ==
    /\ Started + Len(starts) < MaxUploads
    /\ handleFileChange(<<"IMAGE">>)

\* the user picks files of any kind
SelectFiles == \E types \in Batches(MediaType) : handleFileChange(types)

\* a FileReader has read its input: handleFileChange goes on to, or the
\* recorder's reader.onloadend calls, processBatchUpload
ReaderDone(inc, speed) ==
    /\ Quiet
    /\ \E n \in 1..Len(starts) :
          /\ processBatchUpload(FreeCall, starts[n].ep, starts[n].types,
                                starts[n].sizes, modal, inc, speed)
          /\ starts' = RemoveAt(starts, n)
    /\ UNCHANGED <<storeVars, isDBLoaded, settings, selectedItem, showUpload,
                   revoked, unmounted, delCont, delLog, epoch, apiKey, random>>

\* the throttle loop's setTimeout of call k has fired
TickResume(k, inc, speed) ==
    /\ Quiet
    /\ calls[k].pc = "tick"
    /\ Leave(k, AfterTick(Ctx(calls[k], modal), inc, speed))
    /\ UNCHANGED <<storeVars, isDBLoaded, settings, selectedItem, showUpload,
                   revoked, unmounted, delCont, delLog, epoch, starts, apiKey, random>>

\* analyzeMedia(...).catch(() => null) of call k has settled
EnrichResume(k, inc, speed) ==
    /\ Quiet
    /\ calls[k].pc = "enrich"
    /\ \E analysis \in AnalyzeOutcomes :
          Leave(k, Build(Ctx(calls[k], modal), analysis, inc, speed))
    /\ UNCHANGED <<storeVars, isDBLoaded, settings, selectedItem, showUpload,
                   revoked, unmounted, delCont, delLog, epoch, starts, apiKey, random>>

\* stopCamera's state changes
stopCamera(m) ==
    [m EXCEPT !.stream = FALSE, !.showCamera = FALSE, !.isRecording = FALSE]

CameraShown == ModalShown /\ modal.showCamera

\* the 'Live Vault Camera' button; getUserMedia grants a stream
StartCamera ==
    /\ ButtonsShown
    /\ modal' = [modal EXCEPT !.stream = TRUE, !.showCamera = TRUE, !.error = "null"]
    /\ UNCHANGED <<storeVars, appVars, epoch, calls, starts, closeTimers, nextId,
                   apiKey, random>>

\* getUserMedia throws
StartCameraFails ==
    /\ ButtonsShown
    /\ modal' = [modal EXCEPT !.error = "Camera access failed. Check permissions."]
    /\ UNCHANGED <<storeVars, appVars, epoch, calls, starts, closeTimers, nextId,
                   apiKey, random>>

\* the camera view's close button
StopCamera ==
    /\ CameraShown
    /\ modal' = stopCamera(modal)
    /\ UNCHANGED <<storeVars, appVars, epoch, calls, starts, closeTimers, nextId,
                   apiKey, random>>

\* the camera view's PHOTO / VIDEO buttons
SetCameraMode ==
    /\ CameraShown
    /\ \E mode \in MediaType \ {modal.cameraMode} :
          modal' = [modal EXCEPT !.cameraMode = mode]
    /\ UNCHANGED <<storeVars, appVars, epoch, calls, starts, closeTimers, nextId,
                   apiKey, random>>

\* the shutter in PHOTO mode: processBatchUpload([photo], ...); stopCamera()
capturePhoto(inc, speed) ==
    /\ CameraShown
    /\ modal.cameraMode = "IMAGE"
    /\ CanStart
    /\ processBatchUpload(FreeCall, epoch, <<"IMAGE">>, <<3>>, stopCamera(modal),
                          inc, speed)
    /\ UNCHANGED <<storeVars, isDBLoaded, settings, selectedItem, showUpload,
                   revoked, unmounted, delCont, delLog, epoch, starts, apiKey, random>>

\* the shutter in VIDEO mode while not recording
startRecording ==
    /\ CameraShown
    /\ modal.cameraMode = "VIDEO"
    /\ ~modal.isRecording
    /\ modal.stream
    /\ modal' = [modal EXCEPT !.isRecording = TRUE]
    /\ UNCHANGED <<storeVars, appVars, epoch, calls, starts, closeTimers, nextId,
                   apiKey, random>>

\* the shutter in VIDEO mode while recording: recorder.stop(), whose onstop
\* reads the recording and then calls processBatchUpload
stopRecording ==
    /\ CameraShown
    /\ modal.cameraMode = "VIDEO"
    /\ modal.isRecording
    /\ CanStart
    /\ modal' = [modal EXCEPT !.isRecording = FALSE]
    /\ \E size \in FileSizes :
          starts' = Append(starts, [via |-> "recorder", types |-> <<"VIDEO">>,
                                    sizes |-> <<size>>, ep |-> epoch])
    /\ UNCHANGED <<storeVars, appVars, epoch, calls, closeTimers, nextId, apiKey, random>>

\* the steps of the pipeline with the samples Math.random() gives them
FilesRead ==
    \E inc \in Increments(settings.uploadSpeedLimit), speed \in SpeedSamples :
        ReaderDone(inc, speed)

Ticked ==
    \E k \in 1..MaxCalls :
        \E inc \in Increments(settings.uploadSpeedLimit), speed \in SpeedSamples :
            TickResume(k, inc, speed)

Enriched ==
    \E k \in 1..MaxCalls :
        \E inc \in Increments(settings.uploadSpeedLimit), speed \in SpeedSamples :
            EnrichResume(k, inc, speed)

CapturePhoto ==
    \E inc \in Increments(settings.uploadSpeedLimit), speed \in SpeedSamples :
        capturePhoto(inc, speed)

(***************************************************************************)
(* The specifications.                                                     *)
(***************************************************************************)
StoreIdle ==
    /\ db = {}
    /\ txq = <<>>
    /\ delDone = {}
    /\ got = NoResult
    /\ nCalls = 0
    /\ putFailed = 0
    /\ delFailed = 0

\* useState's initial values; storageUsage 0.12 in units of 0.0001
AppMounted ==
    /\ mediaItems = <<>>
    /\ selectedItem = NoItem
    /\ showUpload = FALSE
    /\ objectUrls = {}
    /\ created = {}
    /\ revoked = {}
    /\ unmounted = FALSE
    /\ delCont = NoCont
    /\ delLog = {}

UploadIdle ==
    /\ modal = ModalInit
    /\ epoch = 0
    /\ calls = [k \in 1..MaxCalls |-> NoCall]
    /\ starts = <<>>
    /\ closeTimers = 0
    /\ nextId = 0

Settings(autoTagging, limit) ==
    [autoTagging |-> autoTagging, uploadSpeedLimit |-> limit, storageUsage |-> 1200]

InitStore ==
    /\ StoreIdle
    /\ AppMounted
    /\ UploadIdle
    /\ isDBLoaded = FALSE
    /\ syncDue = FALSE
    /\ settings = Settings(TRUE, "unlimited")
    /\ apiKey = FALSE
    /\ random = {"high"}

NextStore ==
    \/ ClientSave
    \/ ClientDelete
    \/ ClientGetAll
    \/ ClientSaveResolve
    \/ ClientSaveReject
    \/ ClientDeleteResolve
    \/ ClientDeleteReject
    \/ ClientGetAllResolve
    \/ ClientGetAllReject

SpecStore == InitStore /\ [][NextStore]_vars

\* what an earlier session can have left in the store: nothing, a record
\* with a Blob payload, or a video stored with a data URL and no size
StoredBlob == MediaItem(1, BlobPayload(1), "IMAGE", "t", <<>>, FALSE, NoSize)
StoresAtStart == {{}, {StoredBlob}, {[StoredBlob EXCEPT !.type = "VIDEO", !.url = DataUrl(1)]}}

\* the App has mounted: its load effect has called getAllMediaItems() and its
\* state-sync effect is due for the first time
Init ==
    /\ db \in StoresAtStart
    /\ txq = getAllMediaItems(<<>>, "load", {})
    /\ delDone = {}
    /\ got = NoResult
    /\ nCalls = 0
    /\ putFailed = 0
    /\ delFailed = 0
    /\ AppMounted
    /\ UploadIdle
    /\ isDBLoaded = FALSE
    /\ syncDue = TRUE
    /\ settings = Settings(TRUE, "unlimited")
    /\ apiKey = FALSE
    /\ random = {"high"}

Next ==
    \/ LoadResolve
    \/ LoadReject
    \/ Teardown
    \/ SyncEffect
    \/ SyncSaveResolve
    \/ SyncSaveReject
    \/ SelectItem
    \/ CloseDetail
    \/ ToggleFavorite
    \/ DeleteItem
    \/ DeleteResolve
    \/ DeleteContinue
    \/ DeleteReject
    \/ OpenUpload
    \/ CloseUpload
    \/ CloseTimer
    \/ SelectImage
    \/ FilesRead
    \/ Enriched

Spec == Init /\ [][Next]_vars

\* the App has loaded an empty store and run its effects
AppLoaded ==
    /\ StoreIdle
    /\ AppMounted
    /\ UploadIdle
    /\ isDBLoaded = TRUE
    /\ syncDue = FALSE

\* the UploadModal with its camera, at the unlimited tier
InitUpload ==
    /\ AppLoaded
    /\ settings = Settings(TRUE, "unlimited")
    /\ apiKey = FALSE
    /\ random = {"high"}

NextUpload ==
    \/ SyncEffect
    \/ SyncSaveResolve
    \/ SyncSaveReject
    \/ OpenUpload
    \/ CloseUpload
    \/ CloseTimer
    \/ SelectFiles
    \/ FilesRead
    \/ Ticked
    \/ Enriched
    \/ StartCamera
    \/ StartCameraFails
    \/ StopCamera
    \/ SetCameraMode
    \/ CapturePhoto
    \/ startRecording
    \/ stopRecording

SpecUpload == InitUpload /\ [][NextUpload]_vars

\* batches of picked files through the pipeline; the settings are what
\* localStorage held
\* what an earlier session can have left: nothing, or a video stored with a
\* data URL and no size
StoredData == MediaItem(1, DataUrl(1), "VIDEO", "t", <<>>, FALSE, NoSize)
LoadedAtStart == {<<>>, <<StoredData>>}

\* the App after its load and its first state-sync over the items loaded
AppLoadedWith(old) ==
    /\ db = {old[n] : n \in 1..Len(old)}
    /\ txq = <<>>
    /\ delDone = {}
    /\ got = NoResult
    /\ nCalls = 0
    /\ putFailed = 0
    /\ delFailed = 0
    /\ mediaItems = old
    /\ selectedItem = NoItem
    /\ showUpload = FALSE
    /\ objectUrls = {}
    /\ created = {}
    /\ revoked = {}
    /\ unmounted = FALSE
    /\ delCont = NoCont
    /\ delLog = {}
    /\ UploadIdle
    /\ isDBLoaded = TRUE
    /\ syncDue = FALSE

InitBatch ==
    /\ \E old \in LoadedAtStart :
          /\ AppLoadedWith(old)
          /\ \E autoTagging \in BOOLEAN, limit \in UploadSpeedLimit :
                settings = [Settings(autoTagging, limit)
                               EXCEPT !.storageUsage = storageUsageOf(old)]
    /\ apiKey \in BOOLEAN
    /\ random = {"low", "high"}

NextBatch ==
    \/ SyncEffect
    \/ SyncSaveResolve
    \/ SyncSaveReject
    \/ OpenUpload
    \/ CloseUpload
    \/ CloseTimer
    \/ SelectFiles
    \/ FilesRead
    \/ Ticked
    \/ Enriched

SpecBatch == InitBatch /\ [][NextBatch]_vars

\* SpecBatch where what is awaited settles: React runs a due effect, a
\* FileReader finishes, the timer of a throttle tick fires, and
\* analyzeMedia(...).catch(() => null) returns
BatchFairness ==
    /\ WF_vars(SyncEffect)
    /\ WF_vars(FilesRead)
    /\ \A k \in 1..MaxCalls :
          /\ WF_vars(\E inc \in Increments(settings.uploadSpeedLimit), speed \in SpeedSamples :
                        TickResume(k, inc, speed))
          /\ WF_vars(\E inc \in Increments(settings.uploadSpeedLimit), speed \in SpeedSamples :
                        EnrichResume(k, inc, speed))

\* an empty vault with the default autoTagging, at any tier
InitTerminate ==
    /\ AppLoadedWith(<<>>)
    /\ \E limit \in UploadSpeedLimit :
          settings = [Settings(TRUE, limit) EXCEPT !.storageUsage = storageUsageOf(<<>>)]
    /\ apiKey \in BOOLEAN
    /\ random = {"low", "high"}

SpecTerminate == InitTerminate /\ [][NextBatch]_vars /\ BatchFairness

(***************************************************************************)
(* SpecVault: the second App definition of vite.config.ts (lines 346-633). *)
(* It keeps no object URLs, and its load, favorite, delete and upload      *)
(* handlers do what the first definition's do on items whose url is a      *)
(* string, the only items this specification has; its state-sync effect    *)
(* differs.                                                                *)
(***************************************************************************)
STORAGE_CAPACITY_GB == 8192

\* Math.min(STORAGE_CAPACITY_GB, Number((mediaItems.length * 0.05 + 0.1).toFixed(2))),
\* in units of 0.0001 GB
vaultUsageOf(items) == Min(STORAGE_CAPACITY_GB * 10000, Len(items) * 500 + 1000)

\* the state-sync effect of the second App definition
VaultSyncEffect ==
    /\ syncDue
    /\ ~unmounted
    /\ delCont = NoCont
    /\ syncDue' = FALSE
    /\ IF isDBLoaded /\ Len(mediaItems) > 0
       THEN /\ txq' = saveMediaItems(txq, mediaItems, "sync")
            /\ delDone' = delDone \ SeqIds(mediaItems)
            /\ settings' = [settings EXCEPT !.storageUsage = vaultUsageOf(mediaItems)]
       ELSE UNCHANGED <<txq, delDone, settings>>
    /\ UNCHANGED <<db, got, nCalls, putFailed, delFailed, mediaItems, isDBLoaded, selectedItem,
                   showUpload, objectUrls, created, revoked, unmounted, delCont,
                   delLog, uploadVars>>

InitVault ==
    /\ \E old \in LoadedAtStart : db = {old[n] : n \in 1..Len(old)}
    /\ txq = getAllMediaItems(<<>>, "load", {})
    /\ delDone = {}
    /\ got = NoResult
    /\ nCalls = 0
    /\ putFailed = 0
    /\ delFailed = 0
    /\ AppMounted
    /\ UploadIdle
    /\ isDBLoaded = FALSE
    /\ syncDue = TRUE
    /\ settings = Settings(TRUE, "unlimited")
    /\ apiKey = FALSE
    /\ random = {"high"}

NextVault ==
    \/ LoadResolve
    \/ LoadReject
    \/ VaultSyncEffect
    \/ SyncSaveResolve
    \/ SyncSaveReject
    \/ SelectItem
    \/ CloseDetail
    \/ ToggleFavorite
    \/ DeleteItem
    \/ DeleteResolve
    \/ DeleteContinue
    \/ DeleteReject
    \/ OpenUpload
    \/ CloseUpload
    \/ CloseTimer
    \/ SelectImage
    \/ FilesRead
    \/ Enriched

SpecVault == InitVault /\ [][NextVault]_vars

(***************************************************************************)
(* SpecRemount: the App unmounted and mounted again in the same page.  A   *)
(* new mount starts from useState's and useRef's initial values, reads its *)
(* settings back from localStorage, and runs the load effect again; the    *)
(* object URLs of the page outlive the component.  The App is mounted      *)
(* again only when nothing of the earlier mount is left to run.            *)
(***************************************************************************)
Remount ==
    /\ unmounted
    /\ txq = <<>>
    /\ delCont = NoCont
    /\ Cardinality(created) < MaxHandles
    /\ unmounted' = FALSE
    /\ mediaItems' = <<>>
    /\ isDBLoaded' = FALSE
    /\ selectedItem' = NoItem
    /\ showUpload' = FALSE
    /\ objectUrls' = {}
    /\ syncDue' = TRUE
    /\ txq' = getAllMediaItems(txq, "load", {})
    /\ UNCHANGED <<db, delDone, got, nCalls, putFailed, delFailed, settings, created,
                   revoked, delCont, delLog, uploadVars>>

NextRemount ==
    \/ LoadResolve
    \/ LoadReject
    \/ Teardown
    \/ Remount
    \/ SyncEffect
    \/ SyncSaveResolve
    \/ SyncSaveReject
    \/ SelectItem
    \/ CloseDetail
    \/ ToggleFavorite

SpecRemount == Init /\ [][NextRemount]_vars

(***************************************************************************)
(* SpecClassify: the file input's change handler on raw files.  A file has *)
(* a mime type (file.type, '' when the browser knows none) and a name with *)
(* an extension; accept="image/*,video/*" is a hint of the file chooser    *)
(* and does not keep other files out.                                      *)
(***************************************************************************)
MimeTypes == {"image/jpeg", "video/mp4", "application/pdf", ""}
Extensions == {"jpg", "mp4", "pdf"}
RawFiles == [mime : MimeTypes, ext : Extensions]

\* file.type.startsWith('video') ? MediaType.VIDEO : MediaType.IMAGE
classify(file) == IF file.mime = "video/mp4" THEN "VIDEO" ELSE "IMAGE"

\* handleFileChange on the raw files, up to its first await
handleFileChangeOf(files) ==
    /\ ButtonsShown
    /\ CanStart
    /\ NotBusy
    /\ modal' = [modal EXCEPT !.loading = TRUE]
    /\ \E sizes \in [1..Len(files) -> FileSizes] :
          starts' = Append(starts, [via |-> "files",
                                    types |-> [j \in 1..Len(files) |-> classify(files[j])],
                                    sizes |-> sizes, ep |-> epoch, files |-> files])
    /\ UNCHANGED <<storeVars, appVars, epoch, calls, closeTimers, nextId, apiKey, random>>

SelectRawFiles == \E files \in Batches(RawFiles) : handleFileChangeOf(files)

NextClassify ==
    \/ SyncEffect
    \/ SyncSaveResolve
    \/ SyncSaveReject
    \/ OpenUpload
    \/ CloseUpload
    \/ CloseTimer
    \/ SelectRawFiles
    \/ FilesRead
    \/ Ticked
    \/ Enriched

SpecClassify == InitUpload /\ [][NextClassify]_vars

\* SpecProgress: long batches of photos at the unlimited tier, where the
\* only progress reports are the ones that follow each item
Photos(n) == [k \in 1..n |-> "IMAGE"]

SelectPhotos == \E n \in 1..MaxTotal : handleFileChange(Photos(n))

InitProgress ==
    /\ AppLoaded
    /\ settings = Settings(TRUE, "unlimited")
    /\ apiKey \in BOOLEAN
    /\ random = {"high"}

NextProgress ==
    \/ SyncEffect
    \/ SyncSaveResolve
    \/ SyncSaveReject
    \/ OpenUpload
    \/ CloseUpload
    \/ CloseTimer
    \/ SelectPhotos
    \/ FilesRead
    \/ Enriched

SpecProgress == InitProgress /\ [][NextProgress]_vars

(***************************************************************************)
(* The claims.                                                             *)
(***************************************************************************)

\* C1: a getAllMediaItems() called after deleteMediaItem(id) has resolved
\* returns no record with that id, when no saveMediaItems of an item with
\* that id was called since the delete was called (got.safe holds the ids
\* for which that was so when the read was called).
C1_DeleteThenGetAll ==
    got.done => \A id \in got.safe : id \notin SeqIds(got.items)

\* a read that followed a resolved delete and still returned a record
C1_Witness == got.done /\ got.safe # {} /\ got.items # <<>>

\* C2: the records getAllMediaItems() returns have pairwise distinct ids,
\* after any sequence of saves and deletes.
C2_UniqueIds ==
    got.done =>
        \A i \in 1..Len(got.items) : \A j \in 1..Len(got.items) :
            i # j => got.items[i].id # got.items[j].id

\* a read that returned two records with no call left in flight
C2_Witness == got.done /\ Len(got.items) = 2 /\ txq = <<>> /\ nCalls >= 3

\* C3: when the put of an item of a batch fails, an IngestionError is
\* reported and the items after it in the batch were never processed.
C3_FailureStopsBatch ==
    \A k \in 1..MaxCalls : \A j \in 1..Len(calls[k].newItems) :
        calls[k].newItems[j].id = putFailed =>
            /\ modal.error = "IngestionError"
            /\ Len(calls[k].newItems) <= j

\* C4: whenever a store write of ingested items fails the user is shown an
\* error, and no success is shown.
C4_NoSilentLoss ==
    putFailed # 0 => modal.error # "null" /\ ~modal.isSuccess

\* nothing asynchronous is left to run
Settled ==
    /\ txq = <<>>
    /\ delCont = NoCont
    /\ starts = <<>>
    /\ InFlight = {}
    /\ closeTimers = 0

C8_OneBatchInFlight == Cardinality(InFlight) <= 1

\* C9: the percentages a processBatchUpload call reports never decrease, and
\* the last one is 100.
C9_ProgressMonotone ==
    \A k \in 1..MaxCalls :
        /\ calls[k].mono
        /\ calls[k].pc = "done" => calls[k].lastP = 100

\* C10: analyzeMedia is invoked for an item exactly when autoTagging is set
\* and the item is an image.
C10_EnrichIffEnabledImage ==
    \A k \in 1..MaxCalls : \A i \in 0..(Len(calls[k].types) - 1) :
        LET reached == i < calls[k].i \/ (i = calls[k].i /\ calls[k].pc = "enrich")
            wanted == settings.autoTagging /\ calls[k].types[i + 1] = "IMAGE"
        IN /\ i \in calls[k].analyzed => wanted
           /\ reached /\ wanted => i \in calls[k].analyzed

\* the items of the in-memory collection
Collection == {mediaItems[n] : n \in 1..Len(mediaItems)}

\* C11: an enrichment that gave null for an item never aborts the batch: a
\* call that has ended built one item per input, in the inputs' kinds, the
\* items whose enrichment failed carry the fallback title and tags, and
\* every item was handed to the collection.
C11_EnrichFailureKeepsBatch ==
    \A k \in 1..MaxCalls :
        calls[k].pc = "done" =>
            /\ Len(calls[k].newItems) = Len(calls[k].types)
            /\ \A n \in 1..Len(calls[k].newItems) :
                  /\ calls[k].newItems[n].type = calls[k].types[n]
                  /\ calls[k].newItems[n] \in Collection
            /\ \A i \in calls[k].nulls :
                  /\ calls[k].newItems[i + 1].title = "Photo"
                  /\ calls[k].newItems[i + 1].tags = <<"vault", "image">>

\* a batch of two ended: the enrichment of its first item failed with the
\* key present, and its second item was enriched
C11_Witness ==
    \E k \in 1..MaxCalls :
        /\ calls[k].pc = "done"
        /\ apiKey
        /\ calls[k].nulls = {0}
        /\ Len(calls[k].newItems) = 2
        /\ calls[k].newItems[2].title = "analysis.title"

\* C12: when a saveMediaItems call fails on the put of its item j, the items
\* before j in the call are stored after the call has settled.
C12_PutsIndependent ==
    [][putFailed' # putFailed =>
          \E j \in 1..Len(Head(txq).items) :
              /\ Head(txq).items[j].id = putFailed'
              /\ \A i \in 1..(j - 1) : Head(txq).items[i] \in db']_vars

\* the records stored under an id
StoredUnder(store, id) == {r \in store : r.id = id}

\* C13: deleteMediaItem(id) of an id that is not stored succeeds and leaves
\* the stored records unchanged; of a stored id it removes exactly the
\* record under that id and leaves every other record unchanged.
C13_DeleteFrame ==
    /\ [](\A id \in Ids :
            /\ StoredUnder(db, id) = {} => delete(db, id) = db
            /\ delete(db, id) = db \ StoredUnder(db, id))
    /\ [](HeadIs("delete", "client") => ENABLED ClientDeleteResolve)
    /\ [][HeadIs("delete", "client") /\ txq' = Tail(txq) =>
            /\ db' \in {db, db \ StoredUnder(db, Head(txq).id)}
            /\ Head(txq).id \in delDone' \ delDone =>
                  db' = db \ StoredUnder(db, Head(txq).id)]_vars

\* a delete has resolved and a record under another id is still stored
C13_Witness ==
    /\ txq = <<>>
    /\ \E id \in delDone :
          /\ StoredUnder(db, id) = {}
          /\ \E r \in db : r.id # id

\* C14: a batch is processed one item at a time: while a call ticks or
\* awaits the enrichment of item i, exactly the items before i are built and
\* appended; the list passed to onUpload holds one item per input, in the
\* inputs' order; handleUpload puts that list, in that order, ahead of the
\* existing collection.
C14_SequentialInOrder ==
    /\ [](\A k \in 1..MaxCalls :
            /\ calls[k].pc \in {"tick", "enrich"} =>
                  Len(calls[k].newItems) = calls[k].i
            /\ calls[k].pc = "done" =>
                  Len(calls[k].newItems) = Len(calls[k].types)
            /\ \A n \in 1..Len(calls[k].newItems) :
                  /\ calls[k].newItems[n].type = calls[k].types[n]
                  /\ calls[k].newItems[n].size = calls[k].sizes[n]
                  /\ n > 1 => calls[k].newItems[n - 1].id < calls[k].newItems[n].id)
    /\ [][\A k \in 1..MaxCalls :
            calls[k].pc # "done" /\ calls'[k].pc = "done" =>
                mediaItems' = calls'[k].newItems \o mediaItems]_vars

\* a batch of two kinds has been put ahead of an item loaded earlier
C14_Witness ==
    \E k \in 1..MaxCalls :
        /\ calls[k].pc = "done"
        /\ calls[k].types = <<"VIDEO", "IMAGE">>
        /\ mediaItems = calls[k].newItems \o <<StoredData>>

\* C15: once i items of a batch of total photos are finished, the progress
\* that was set is floor(i / total * 100).
C15_ProgressIsFloor ==
    \A k \in 1..MaxCalls :
        calls[k].pc \in {"enrich", "done"} /\ calls[k].i >= 1 =>
            calls[k].lastP = (100 * calls[k].i) \div Len(calls[k].types)

\* C16: no throttle tick of item i reports a value above
\* (i + 0.98) / total * 100.
C16_TickCappedAt98 ==
    \A k \in 1..MaxCalls :
        calls[k].pc = "tick" =>
            calls[k].lastP * Len(calls[k].types) <= 100 * calls[k].i + 98

\* C17: for inputs of the same length, whatever the random samples, a run
\* at tier 1mbps lasts longer than any run at tier unlimited: the unlimited
\* run lasts at most MostTicks ticks of 50 ms per item, and the 1mbps run
\* lasts longer than that.
C17_SlowTierTakesLonger ==
    \A k \in 1..MaxCalls :
        calls[k].pc = "done" =>
            LET most == MostTicks * TickDelay("unlimited") * Len(calls[k].types)
            IN /\ settings.uploadSpeedLimit = "unlimited" =>
                     Duration(calls[k]) <= most
               /\ settings.uploadSpeedLimit = "1mbps" =>
                     Duration(calls[k]) > most

\* the shortest run of two items at tier 1mbps has ended
C17_Witness ==
    \E k \in 1..MaxCalls :
        /\ calls[k].pc = "done"
        /\ settings.uploadSpeedLimit = "1mbps"
        /\ Len(calls[k].types) = 2
        /\ Duration(calls[k]) = 2 * 13 * 200

\* the longest run of two videos at tier unlimited has ended
C17_WitnessFast ==
    \E k \in 1..MaxCalls :
        /\ calls[k].pc = "done"
        /\ settings.uploadSpeedLimit = "unlimited"
        /\ calls[k].types = <<"VIDEO", "VIDEO">>
        /\ Duration(calls[k]) = 2 * 20 * 50

\* the collection was changed after the load: an upload, a favorite toggle
\* or a delete has happened
Mutated ==
    \/ nextId > 0
    \/ delDone # {}
    \/ \E n \in 1..Len(mediaItems) : mediaItems[n].isFavorite

\* the state-sync effect has run for the current collection
Synced == isDBLoaded /\ ~syncDue /\ ~unmounted /\ delCont = NoCont

\* C18: after a mutation of the collection made once the load has completed
\* (the delete of the last item included) the stored usage is the usage
\* recomputed over the current collection; here for the second App
\* definition, whose recomputation is vaultUsageOf.
C18_UsageFresh ==
    Synced /\ Mutated => settings.storageUsage = vaultUsageOf(mediaItems)

\* baseline 0.12 plus, for each item, its explicit size when it has one and
\* else the constant of its kind (0.05 video, 0.005 image), in 1/51200 GB
ClaimedUsage(items) ==
    LET sum[n \in 0..Len(items)] ==
            IF n = 0 THEN 6144
            ELSE sum[n - 1] + (IF items[n].size # NoSize THEN 5 * items[n].size
                               ELSE IF items[n].type = "VIDEO" THEN 2560
                               ELSE 256)
    IN sum[Len(items)]

\* C19: the usage the state-sync effect stores (in 0.0001 GB) is 0.12 for an
\* empty collection, 0.12 + 0.05 for one video without a size, and in
\* general the baseline plus each item's explicit size or kind constant,
\* to four decimals.
C19_UsageValue ==
    Synced =>
        /\ mediaItems = <<>> => settings.storageUsage = 1200
        /\ Len(mediaItems) = 1 /\ mediaItems[1].type = "VIDEO"
              /\ mediaItems[1].size = NoSize => settings.storageUsage = 1700
        /\ settings.storageUsage = (ClaimedUsage(mediaItems) * 50 + 128) \div 256

\* the usage was computed over a video without a size and an item with one
C19_Witness ==
    /\ Synced
    /\ Len(mediaItems) = 2
    /\ mediaItems[1].size # NoSize
    /\ mediaItems[2].type = "VIDEO" /\ mediaItems[2].size = NoSize
    /\ settings.storageUsage > 1700

\* the names the selected files carry, and the extension of a file of a kind
FileNames == {"IMG_0001.jpg", "clip.mp4"}
ExtensionOf(type) == IF type = "VIDEO" THEN "mp4" ELSE "jpg"

\* C20: an item built without enrichment, or after an enrichment that gave
\* null, has the file's name as title and [extension, kind] as tags.
C20_FallbackFromFile ==
    \A k \in 1..MaxCalls : \A n \in 1..Len(calls[k].newItems) :
        LET item == calls[k].newItems[n]
        IN (n - 1) \notin calls[k].analyzed \/ (n - 1) \in calls[k].nulls =>
              /\ item.title \in FileNames
              /\ item.tags = <<ExtensionOf(item.type),
                                IF item.type = "VIDEO" THEN "video" ELSE "image">>

\* C21, as claimed: handleToggleFavorite(id) applied twice in a row leaves
\* the collection as one application leaves it.
C21_ToggleIdempotent ==
    \A id \in SeqIds(mediaItems) :
        mapToggle(mapToggle(mediaItems, id), id) = mapToggle(mediaItems, id)

\* C21, amended: handleToggleFavorite(id) applied twice in a row leaves the
\* collection as it was before the first application, and one application
\* of it to the id of an item changes the collection.
C21_ToggleInvolution ==
    \A id \in SeqIds(mediaItems) :
        /\ mapToggle(mapToggle(mediaItems, id), id) = mediaItems
        /\ mapToggle(mediaItems, id) # mediaItems

\* the favorite button of the open DetailModal has marked its item
C21_Witness ==
    \E n \in 1..Len(mediaItems) :
        /\ mediaItems[n].isFavorite
        /\ selectedItem = mediaItems[n]

\* the live handles made for a payload: every handle is made from the Blob
\* payload of a stored record, and the store holds at most the one record
\* StoredBlob with such a payload
LiveHandlesOf(payload) ==
    IF payload = StoredBlob.url THEN created \ revoked ELSE {}

ClaimedKind(file) ==
    CASE file.mime = "image/jpeg" -> "IMAGE"
      [] file.mime = "video/mp4" -> "VIDEO"
      [] file.mime = "" /\ file.ext = "jpg" -> "IMAGE"
      [] file.mime = "" /\ file.ext = "mp4" -> "VIDEO"
      [] OTHER -> "DOCUMENT"

\* C24: once a handleDeleteItem(id) and every store call made around it have
\* finished, the store holds no record with the deleted id.
C24_DeleteNotUndone ==
    txq = <<>> /\ delCont = NoCont =>
        \A e \in delLog : e.id \notin {r.id : r \in db}

Uploaded ==
    UNION {SeqIds(calls[k].newItems) : k \in {j \in 1..MaxCalls : calls[j].pc = "done"}}

\* the ids a handleDeleteItem has run to its end for
Deleted == {e.id : e \in delLog}

\* C26: once the initial load has settled, no store call is in flight and no
\* save was rejected, every item handed to handleUpload and not deleted since
\* is in the in-memory collection and in the store, also when the upload
\* completed while the load was pending.
C26_UploadsKept ==
    (/\ isDBLoaded /\ ~unmounted /\ ~syncDue /\ delCont = NoCont
     /\ txq = <<>> /\ putFailed = 0)
    => \A id \in Uploaded \ Deleted :
           id \in SeqIds(mediaItems) /\ id \in {r.id : r \in db}

\* C27: a step in which the store delete of handleDeleteItem(id) is rejected
\* (the record of id is in the store before and after it) leaves the
\* collection, the tracked handles, the revoked handles and the selection as
\* they were, and leaves nothing of handleDeleteItem to run.
C27_RejectedDeleteChangesNothing ==
    [][(/\ HeadIs("delete", "del") /\ txq' = Tail(txq)
        /\ Head(txq).id \in {r.id : r \in db}
        /\ Head(txq).id \in {r.id : r \in db'})
       => /\ mediaItems' = mediaItems /\ objectUrls' = objectUrls
          /\ revoked' = revoked /\ selectedItem' = selectedItem
          /\ delCont' = NoCont]_vars

\* a delete was rejected and every call has settled: the item is in the
\* collection, its handle tracked and not revoked
C27_Witness ==
    /\ delFailed # 0 /\ txq = <<>> /\ delCont = NoCont /\ ~unmounted
    /\ \E k \in 1..Len(mediaItems) :
          /\ mediaItems[k].id = delFailed
          /\ mediaItems[k].url.k = "blob:"
          /\ mediaItems[k].url.n \in objectUrls \ revoked

\* after differs from before in the isFavorite of the items with this id, and
\* in nothing else
OnlyFavoriteOf(before, after, id) ==
    /\ Len(after) = Len(before)
    /\ \A k \in 1..Len(before) :
          /\ [after[k] EXCEPT !.isFavorite = FALSE] = [before[k] EXCEPT !.isFavorite = FALSE]
          /\ after[k].isFavorite = (before[k].isFavorite # (before[k].id = id))
    /\ (id \notin SeqIds(before) => after = before)

\* C28: a handleToggleFavorite(id) step flips the isFavorite of the items with
\* that id and leaves the other items, the other fields, the length and the
\* order as they were; with an id that is absent it changes nothing; and
\* toggling the result once more gives the collection it started from.
C28_ToggleChangesOnlyFavorite ==
    [][ToggleFavorite =>
          \E id \in SeqIds(mediaItems) \cup {selectedItem.id} :
              /\ OnlyFavoriteOf(mediaItems, mediaItems', id)
              /\ OnlyFavoriteOf(mediaItems, mapToggle(mediaItems, 0), 0)
              /\ OnlyFavoriteOf(mediaItems', mapToggle(mediaItems', id), id)
              /\ mapToggle(mediaItems', id) = mediaItems]_vars

\* a toggle has marked one of two items
C28_Witness ==
    Len(mediaItems) = 2 /\ Favorites = 1 /\ ~unmounted

\* processBatchUpload call k has called onUpload in this step
Ends(k) == calls[k].pc # "done" /\ calls'[k].pc = "done"

\* C29: every processBatchUpload call that is in flight ends, provided what it
\* awaits settles; each throttle tick advances the simulated progress by at
\* least 5 from below 98, so a call has awaited at most 20 ticks for each item
\* it has started; and a call hands its items to onUpload once, in the step
\* in which it ends, after its last item: no other step changes the
\* collection or starts a close timer, and a call that has ended does nothing
\* more.
C29_BatchTerminates ==
    /\ \A k \in 1..MaxCalls : calls[k].pc \in {"tick", "enrich"} ~> calls[k].pc = "done"
    /\ [](\A k \in 1..MaxCalls :
            calls[k].ticks <= MostTicks * Min(calls[k].i + 1, Len(calls[k].types)))
    /\ [][\A k \in 1..MaxCalls :
            /\ calls'[k].ticks > calls[k].ticks =>
                  /\ calls'[k].ticks = calls[k].ticks + 1
                  /\ calls'[k].simulatedProgress >= 5
                  /\ calls'[k].i = calls[k].i /\ calls[k].pc = "tick" =>
                        /\ calls[k].simulatedProgress < 98
                        /\ calls'[k].simulatedProgress >= calls[k].simulatedProgress + 5
            /\ Ends(k) =>
                  /\ calls'[k].i = Len(calls[k].types)
                  /\ Len(calls'[k].newItems) = Len(calls[k].types)
                  /\ mediaItems' = SetState(calls'[k].newItems \o mediaItems, mediaItems)
                  /\ closeTimers' = closeTimers + 1
            /\ calls[k].pc = "done" => calls'[k] = calls[k]]_vars
    /\ [][(\A k \in 1..MaxCalls : ~Ends(k)) =>
            mediaItems' = mediaItems /\ closeTimers' <= closeTimers]_vars

\* a call of one item has ended after the most ticks an item can take
C29_Witness ==
    \E k \in 1..MaxCalls :
        /\ calls[k].pc = "done" /\ Len(calls[k].types) = 1
        /\ calls[k].ticks = MostTicks
        /\ SeqIds(calls[k].newItems) \subseteq SeqIds(mediaItems)

\* the cap the tiers are said to have, in Mbps
ClaimedCap(limit) ==
    CASE limit = "1mbps" -> 1
      [] limit = "5mbps" -> 5
      [] limit = "10mbps" -> 10
      [] limit = "unlimited" -> 100

\* C30: the throughput the modal shows never exceeds the cap of the selected
\* tier, 1, 5 or 10 Mbps, or 100 Mbps at the unlimited tier, whatever
\* Math.random() gave.
C30_BitrateWithinCap == modal.bitrate <= ClaimedCap(settings.uploadSpeedLimit)

\* at the unlimited tier a sample above 100 Mbps was drawn and 100 is shown
C30_Witness ==
    /\ settings.uploadSpeedLimit = "unlimited"
    /\ modal.bitrate = 100
    /\ \E s \in SpeedSamples : s > 100

\* C23: every selected file is classified as the kind its mime type gives,
\* else the kind its extension gives, else as Document.
C23_ClassifiedByMimeThenExtension ==
    \A n \in 1..Len(starts) :
        "files" \in DOMAIN starts[n] =>
            \A j \in 1..Len(starts[n].files) :
                starts[n].types[j] = ClaimedKind(starts[n].files[j])

=============================================================================
